---------------------------- MODULE Spec2Model ----------------------------
(***************************************************************************)
(* A model of mpfshell (src/mp/mpfshell.py): the MpFileShell command       *)
(* dispatcher, its session handle `fe`, the repl bridge and main()'s       *)
(* batch / script runner.                                                  *)
(*                                                                         *)
(* Text is modelled as a sequence of symbols.  A symbol is a command word, *)
(* an argument letter, a blank, ";" or "#".  The device side (the          *)
(* MpFileExplorer handle) is an external collaborator: each of its calls   *)
(* is logged and its outcome is chosen nondeterministically.               *)
(***************************************************************************)
EXTENDS Naturals, Sequences, FiniteSets

(* ------------------------------ bounds -------------------------------- *)
\* session handles the device hands out before every connect fails
MaxSessions == 2
\* longest `;`-separated batch / longest script file
MaxBatch == 2
\* lines the operator types in the interactive loop that follows a batch
MaxTyped == 1

\* self.fe = None: no session handle
NoSession == 0
None == "None"
SessionIds == 1..MaxSessions
Paths == {"/", "/a"}

\* an argparse value that defaults to None
Absent == [given |-> FALSE, value |-> <<>>]
Given(v) == [given |-> TRUE, value |-> v]

\* sys.stdin: the terminal, or the lines of a StringIO
Tty == [tty |-> TRUE, lines |-> <<>>]
StringIO(lines) == [tty |-> FALSE, lines |-> lines]

(* ------------------------------- text --------------------------------- *)
CommandWords ==
  {"open", "close", "ls", "pwd", "cd", "md", "lls", "lcd", "lpwd",
   "put", "get", "rm", "cat", "exec", "repl", "exit", "EOF"}

\* cmd.Cmd.identchars: what a command name may consist of
IdentSyms == CommandWords \cup {"a", "b", "x"}

RECURSIVE LStrip(_)
LStrip(s) == IF s # <<>> /\ Head(s) = " " THEN LStrip(Tail(s)) ELSE s

RECURSIVE RStrip(_)
RStrip(s) ==
  IF s # <<>> /\ s[Len(s)] = " " THEN RStrip(SubSeq(s, 1, Len(s) - 1)) ELSE s

\* str.strip()
Strip(s) == RStrip(LStrip(s))

\* str.startswith(c) for a one-symbol prefix
StartsWith(s, c) == s # <<>> /\ Head(s) = c

\* str.split(sep): the pieces between the separators, empty pieces kept
RECURSIVE SplitFrom(_, _, _)
SplitFrom(s, sep, piece) ==
  IF s = <<>> THEN <<piece>>
  ELSE IF Head(s) = sep THEN <<piece>> \o SplitFrom(Tail(s), sep, <<>>)
  ELSE SplitFrom(Tail(s), sep, Append(piece, Head(s)))

Split(s, sep) == SplitFrom(s, sep, <<>>)

\* sep.join(words)
RECURSIVE Join(_, _)
Join(words, sep) ==
  IF words = <<>> THEN <<>>
  ELSE IF Len(words) = 1 THEN words[1]
  ELSE words[1] \o <<sep>> \o Join(Tail(words), sep)

RECURSIVE IdentLen(_)
IdentLen(s) ==
  IF s # <<>> /\ Head(s) \in IdentSyms THEN 1 + IdentLen(Tail(s)) ELSE 0

\* cmd.Cmd.parseline: the leading identifier is the command, the stripped
\* rest is the argument string
parseline(line) ==
  LET l == Strip(line)
      i == IdentLen(l)
  IN  [cmd |-> SubSeq(l, 1, i), arg |-> Strip(SubSeq(l, i + 1, Len(l)))]

\* the do_<cmd> method onecmd looks up; "default" when there is none
Handler(p) ==
  IF Len(p.cmd) = 1 /\ p.cmd[1] \in CommandWords THEN p.cmd[1] ELSE "default"

(* ------------------------------ state --------------------------------- *)
VARIABLES
  fe,             \* MpFileShell.fe: None or the id of the session handle
  made,           \* how many session handles have been made
  prompt,         \* MpFileShell.prompt
  openT,          \* handles whose serial transport is open
  mode,           \* protocol mode of the handle fe: Command / Interactive
  cwd,            \* what fe.pwd() reports
  alive,          \* Miniterm.alive of the bridge
  txRunning,      \* the bridge's operator-to-device thread runs
  rxRunning,      \* the bridge's device-to-operator thread runs
  pc,             \* where the main thread is
  caller,         \* who dispatched the running repl: batch or cmdloop
  cur,            \* the parsed line of the last dispatch
  pre,            \* fe, prompt, mode, cwd as they were when it was dispatched
  calls,          \* the Session Handle calls of the last dispatch
  printed,        \* the advisory messages of the last dispatch
  command,        \* args.command
  script,         \* args.script: the lines of the file
  noninteractive, \* args.noninteractive
  queue,          \* main: the pieces of the -c string not yet looked at
  stdin,          \* sys.stdin: "tty" or the lines left of the script
  log,            \* the lines handed to onecmd by the batch or from the script
  typed           \* lines the operator typed after a batch

vars == <<fe, made, prompt, openT, mode, cwd, alive, txRunning, rxRunning, pc,
          caller, cur, pre, calls, printed, command, script, noninteractive,
          queue, stdin, log, typed>>

mainVars == <<command, script, noninteractive>>
bridgeVars == <<alive, txRunning, rxRunning>>


(* --------------------- MpFileShell: the handlers ---------------------- *)
(* A handler maps the shell as it is when the line is dispatched (a record *)
(* s with empty calls and printed) and the outcomes of the handle's calls  *)
(* to the shell as the handler leaves it.  s.ret is what the handler       *)
(* hands back to onecmd: None, True (stop), a raised AttributeError, or    *)
(* "bridge" when do_repl has suspended the protocol and goes on in steps.   *)

NotConnectedMsg == "Not connected to device. Use 'open' first."

\* the prompt text built around a path (colour codes left out)
PromptFor(path) == <<"mpfs [", path, "]> ">>

\* __error
__error(s, msg) == [s EXCEPT !.printed = Append(@, msg)]

\* one call on the session handle s.fe, logged with the mode it was made in
Call(s, op, args, ok) ==
  [s EXCEPT !.calls = Append(@, [op |-> op, sid |-> s.fe, args |-> args,
                                 ok |-> ok, mode |-> s.mode,
                                 openT |-> s.openT])]

\* __set_prompt_path
__set_prompt_path(s) ==
  LET c == Call(s, "pwd", <<>>, TRUE)
  IN  [c EXCEPT !.prompt = PromptFor(c.cwd)]

\* __disconnect: dok is whether fe.close() returns; rel is whether a close()
\* that raised RemoteIOError had released the transport all the same
__disconnect(s, dok, rel) ==
  IF s.fe # NoSession
  THEN LET c == Call(s, "close", <<>>, dok)
       IN  IF dok
           THEN [c EXCEPT !.fe = NoSession, !.openT = @ \ {s.fe},
                          !.mode = None, !.cwd = None]
           ELSE __error([c EXCEPT !.openT = IF rel THEN @ \ {s.fe} ELSE @],
                        "RemoteIOError")
  ELSE s

\* __connect with a second attempt after a failed one
__connect_retry(s, port, dok, rel, cok, path) ==
  LET d  == __disconnect(s, dok, rel)
      ok == cok /\ d.made < MaxSessions
      c  == Call(d, "connect", <<port>>, ok)
  IN  IF ok
      THEN [c EXCEPT !.fe = d.made + 1, !.made = d.made + 1,
                     !.openT = @ \cup {d.made + 1},
                     !.mode = "Command", !.cwd = path]
      ELSE __error(Call(c, "connect", <<port>>, FALSE), "PyboardError")

\* __connect: cok is whether MpFileExplorer(port) returns (it raises
\* PyboardError otherwise, and when the device has no session left to give);
\* path is what the new session reports as its directory.  The call is
\* logged with the handle self.fe still holds when it is made.
__connect(s, port, dok, rel, cok, path) ==
  LET d  == __disconnect(s, dok, rel)
      ok == cok /\ d.made < MaxSessions
      c  == Call(d, "connect", <<port>>, ok)
  IN  IF ok
      THEN [c EXCEPT !.fe = d.made + 1, !.made = d.made + 1,
                     !.openT = @ \cup {d.made + 1},
                     !.mode = "Command", !.cwd = path]
      ELSE __error(c, "PyboardError")

\* __is_open: the answer and the shell after the advisory
__is_open(s) ==
  [open |-> s.fe # NoSession,
   s    |-> IF s.fe = NoSession THEN __error(s, NotConnectedMsg) ELSE s]

do_exit(s) == [s EXCEPT !.ret = "True"]

do_open(s, args, dok, rel, cok, path) ==
  IF args = <<>> THEN __error(s, "Missing argument: <PORT>")
  ELSE __connect(s, args, dok, rel, cok, path)

do_close(s, dok, rel) == __disconnect(s, dok, rel)

do_ls(s, ok) ==
  LET g == __is_open(s)
  IN  IF g.open
      THEN LET c == Call(g.s, "ls", <<>>, ok)
           IN  IF ok THEN Call(c, "pwd", <<>>, TRUE) ELSE __error(c, "IOError")
      ELSE g.s

\* do_pwd has no __is_open guard: self.fe.pwd() on None raises AttributeError
do_pwd(s) ==
  IF s.fe = NoSession THEN [s EXCEPT !.ret = "AttributeError"]
  ELSE Call(s, "pwd", <<>>, TRUE)

\* do_cd that leaves the prompt as it was
do_cd_stale_prompt(s, args, ok, path) ==
  IF args = <<>> THEN __error(s, "Missing argument: <REMOTE DIR>")
  ELSE LET g == __is_open(s)
       IN  IF g.open
           THEN LET c == Call(g.s, "cd", <<args>>, ok)
                IN  IF ok THEN [c EXCEPT !.cwd = path]
                    ELSE __error(c, "IOError")
           ELSE g.s

do_cd(s, args, ok, path) ==
  IF args = <<>> THEN __error(s, "Missing argument: <REMOTE DIR>")
  ELSE LET g == __is_open(s)
       IN  IF g.open
           THEN LET c == Call(g.s, "cd", <<args>>, ok)
                IN  IF ok THEN __set_prompt_path([c EXCEPT !.cwd = path])
                    ELSE __error(c, "IOError")
           ELSE g.s

\* md, rm, cat asking for the connection before the argument
OneArgCmd_guard_first(s, args, op, missing, ok) ==
  LET g == __is_open(s)
  IN  IF g.open
      THEN IF args = <<>> THEN __error(g.s, missing)
           ELSE LET c == Call(g.s, op, <<args>>, ok)
                IN  IF ok THEN c ELSE __error(c, "IOError")
      ELSE g.s

\* md, rm, cat: one argument, one call, IOError caught
OneArgCmd(s, args, op, missing, ok) ==
  IF args = <<>> THEN __error(s, missing)
  ELSE LET g == __is_open(s)
       IN  IF g.open
           THEN LET c == Call(g.s, op, <<args>>, ok)
                IN  IF ok THEN c ELSE __error(c, "IOError")
           ELSE g.s

do_md(s, args, ok) == OneArgCmd(s, args, "md", "Missing argument: <REMOTE DIR>", ok)

do_rm(s, args, ok) == OneArgCmd(s, args, "rm", "Missing argument: <REMOTE FILE>", ok)

do_cat(s, args, ok) == OneArgCmd(s, args, "gets", "Missing argument: <REMOTE FILE>", ok)

\* lls, lpwd: local only
do_lls(s) == s

do_lpwd(s) == s

\* lcd: os.chdir, OSError caught
do_lcd(s, args, ok) ==
  IF args = <<>> THEN __error(s, "Missing argument: <TARGET DIR>")
  ELSE IF ok THEN s ELSE __error(s, "OSError")

\* do_put that never looks at the second name
do_put_same_name(s, args, ok) ==
  IF args = <<>>
  THEN __error(s, "Missing arguments: <LOCAL FILE> [<REMOTE FILE>]")
  ELSE LET g == __is_open(s)
       IN  IF g.open
           THEN LET s_args     == Split(args, " ")
                    lfile_name == s_args[1]
                    c == Call(g.s, "put", <<lfile_name, lfile_name>>, ok)
                IN  IF ok THEN c ELSE __error(c, "IOError")
           ELSE g.s

do_put(s, args, ok) ==
  IF args = <<>>
  THEN __error(s, "Missing arguments: <LOCAL FILE> [<REMOTE FILE>]")
  ELSE LET g == __is_open(s)
       IN  IF g.open
           THEN LET s_args     == Split(args, " ")
                    lfile_name == s_args[1]
                    rfile_name == IF Len(s_args) > 1 THEN s_args[2]
                                  ELSE lfile_name
                    c == Call(g.s, "put", <<lfile_name, rfile_name>>, ok)
                IN  IF ok THEN c ELSE __error(c, "IOError")
           ELSE g.s

do_get(s, args, ok) ==
  IF args = <<>>
  THEN __error(s, "Missing arguments: <REMOTE FILE> [<LOCAL FILE>]")
  ELSE LET g == __is_open(s)
       IN  IF g.open
           THEN LET s_args     == Split(args, " ")
                    rfile_name == s_args[1]
                    lfile_name == IF Len(s_args) > 1 THEN s_args[2]
                                  ELSE rfile_name
                    c == Call(g.s, "get", <<rfile_name, lfile_name>>, ok)
                IN  IF ok THEN c ELSE __error(c, "IOError")
           ELSE g.s

\* what exec_raw_no_follow / follow can do
ExecOutcomes == {"ok", "stderr", "IOError", "PyboardError"}

do_exec(s, args, how) ==
  IF args = <<>> THEN __error(s, "Missing argument: <STATEMENT>")
  ELSE LET g == __is_open(s)
       IN  IF g.open
           THEN LET c == Call(g.s, "exec", <<args>>, how \in {"ok", "stderr"})
                IN  IF how = "ok" THEN c ELSE __error(c, how)
           ELSE g.s

\* do_repl going on to the terminal without fe.teardown()
do_repl_no_suspend(s) ==
  LET g == __is_open(s)
  IN  IF g.open THEN [g.s EXCEPT !.ret = "bridge"] ELSE g.s

\* do_repl up to fe.teardown(): the guard, MpTerminal(...), the suspend call
do_repl(s) ==
  LET g == __is_open(s)
  IN  IF g.open
      THEN LET c == Call(g.s, "teardown", <<>>, TRUE)
           IN  [c EXCEPT !.mode = "Interactive", !.ret = "bridge"]
      ELSE g.s

\* do_repl leaving without fe.setup()
repl_resume_skipped(s) == s

\* do_repl from console.cleanup() on: fe.setup()
repl_resume(s) ==
  LET c == Call(s, "setup", <<>>, TRUE)
  IN  [c EXCEPT !.mode = "Command"]

\* an unknown line passed over in silence
default_silent(s) == s

\* cmd.Cmd.default
default(s) == __error(s, "*** Unknown syntax")


(* ------------------------- inputs of the model ------------------------ *)
\* argument strings typed after put / get: one name, two names, a doubled
\* blank, three names
ArgStrings ==
  {<<"a">>, <<"b">>, <<"a", "b">>, <<"a", " ", "b">>, <<"b", " ", "a">>,
   <<"a", " ", "a">>, <<"a", " ", " ", "b">>, <<"a", " ", "b", " ", "a">>}

\* lines the operator types at the prompt
TtyLines ==
  {<<w>> : w \in CommandWords \cup {"x"}}
    \cup {<<w, " ", "a">> : w \in {"open", "cd", "md", "lcd", "rm", "cat", "exec",
                                    "repl", "x"}}
    \cup {<<w, " ">> \o a : w \in {"put", "get"}, a \in ArgStrings}
    \cup {<<"cd", "a">>, <<" ", "ls", " ">>}

\* the same lines as onecmd's parseline splits them
ParsedTtyLines == {parseline(l) : l \in TtyLines}

\* lines the operator types in the loop that follows a batch
AfterBatchLines ==
  {parseline(l) : l \in {<<"exit">>, <<"EOF">>, <<"ls">>, <<"pwd">>,
                         <<"open", " ", "a">>, <<"close">>, <<"repl">>}}

\* pieces a -c string or a script file is made of
Pieces ==
  {<<>>, <<"#", "ls">>, <<"pwd">>, <<" ", "ls">>, <<"cd", " ", "a">>,
   <<"open", " ", "a">>, <<"exit">>, <<"repl">>}

PieceLists(n) == UNION {[1..k -> Pieces] : k \in 0..n}

\* args.command: None, or the words after -c (here one word)
CommandArgs(n) == {Given(<<Join(l, ";")>>) : l \in PieceLists(n)}

ScriptFiles(n) == {Given(l) : l \in PieceLists(n)}

\* the flag settings main() is started with
Flags ==
  [command : CommandArgs(MaxBatch), script : {Absent},
   noninteractive : BOOLEAN]
    \cup [command : {Absent}, script : ScriptFiles(MaxBatch),
          noninteractive : BOOLEAN]
    \cup [command : CommandArgs(1) \cup {Absent}, script : ScriptFiles(1),
          noninteractive : BOOLEAN]

(* ----------------------------- dispatch ------------------------------- *)
\* the shell as a handler finds it
s0 ==
  [fe |-> fe, made |-> made, prompt |-> prompt, openT |-> openT,
   mode |-> mode, cwd |-> cwd, calls |-> <<>>, printed |-> <<>>, ret |-> None]

Snapshot ==
  [fe |-> fe, prompt |-> prompt, openT |-> openT, mode |-> mode, cwd |-> cwd]

\* a batch loop that ends on a handler's True as cmdloop does
After_stop_ends_batch(ret) ==
  IF ret = "AttributeError" THEN "crashed"
  ELSE IF ret = "bridge" THEN "repl_suspended"
  ELSE IF ret = "True" THEN "done"
  ELSE pc

\* where the main thread is once the handler is back: the batch loop ignores
\* the handler's result, cmdloop ends on True; an exception leaves both
After(ret) ==
  IF ret = "AttributeError" THEN "crashed"
  ELSE IF ret = "bridge" THEN "repl_suspended"
  ELSE IF pc = "cmdloop" /\ ret = "True" THEN "done"
  ELSE pc

\* the handler's result becomes the state
Apply(p, r) ==
  /\ fe' = r.fe
  /\ made' = r.made
  /\ prompt' = r.prompt
  /\ openT' = r.openT
  /\ mode' = r.mode
  /\ cwd' = r.cwd
  /\ calls' = r.calls
  /\ printed' = r.printed
  /\ cur' = p
  /\ pre' = Snapshot
  /\ caller' = pc
  /\ pc' = After(r.ret)
  /\ UNCHANGED bridgeVars

\* cmd.Cmd.onecmd on a parsed line: look the handler up and run it
Run(p) ==
  LET h == Handler(p)
      a == p.arg
  IN  \/ h = "open" /\ \E dok, rel, cok \in BOOLEAN, path \in Paths :
                         Apply(p, do_open(s0, a, dok, rel, cok, path))
      \/ h = "close" /\ \E dok, rel \in BOOLEAN : Apply(p, do_close(s0, dok, rel))
      \/ h = "ls" /\ \E ok \in BOOLEAN : Apply(p, do_ls(s0, ok))
      \/ h = "pwd" /\ Apply(p, do_pwd(s0))
      \/ h = "cd" /\ \E ok \in BOOLEAN, path \in Paths :
                       Apply(p, do_cd(s0, a, ok, path))
      \/ h = "md" /\ \E ok \in BOOLEAN : Apply(p, do_md(s0, a, ok))
      \/ h = "lls" /\ Apply(p, do_lls(s0))
      \/ h = "lcd" /\ \E ok \in BOOLEAN : Apply(p, do_lcd(s0, a, ok))
      \/ h = "lpwd" /\ Apply(p, do_lpwd(s0))
      \/ h = "put" /\ \E ok \in BOOLEAN : Apply(p, do_put(s0, a, ok))
      \/ h = "get" /\ \E ok \in BOOLEAN : Apply(p, do_get(s0, a, ok))
      \/ h = "rm" /\ \E ok \in BOOLEAN : Apply(p, do_rm(s0, a, ok))
      \/ h = "cat" /\ \E ok \in BOOLEAN : Apply(p, do_cat(s0, a, ok))
      \/ h = "exec" /\ \E how \in ExecOutcomes : Apply(p, do_exec(s0, a, how))
      \/ h = "repl" /\ Apply(p, do_repl(s0))
      \/ h \in {"exit", "EOF"} /\ Apply(p, do_exit(s0))
      \/ h = "default" /\ Apply(p, default(s0))

\* cmd.Cmd.onecmd
onecmd(line) == Run(parseline(line))

(* --------------------------- the repl bridge -------------------------- *)
\* lines 381-382: console.setup(); miniterm.start() starts the two copy
\* loops, the reader and the writer thread
ReplStart ==
  /\ pc = "repl_suspended"
  /\ alive' = TRUE
  /\ txRunning' = TRUE
  /\ rxRunning' = TRUE
  /\ pc' = "repl_started"
  /\ UNCHANGED <<fe, made, prompt, openT, mode, cwd, caller, cur, pre, calls,
                 printed, mainVars, queue, stdin, log, typed>>

\* line 384: the banner is printed, the main thread goes on to join
ReplBanner ==
  /\ pc = "repl_started"
  /\ pc' = "repl_join"
  /\ UNCHANGED <<fe, made, prompt, openT, mode, cwd, bridgeVars, caller, cur, pre,
                 calls, printed, mainVars, queue, stdin, log, typed>>

\* KeyboardInterrupt between miniterm.start() and the try block: nothing in
\* do_repl catches it.  Under cmdloop main() catches it (line 437) and ends;
\* in the batch loop nothing does.
InterruptBeforeJoin ==
  /\ pc = "repl_started"
  /\ pc' = IF caller = "cmdloop" THEN "done" ELSE "interrupted"
  /\ UNCHANGED <<fe, made, prompt, openT, mode, cwd, bridgeVars, caller, cur, pre,
                 calls, printed, mainVars, queue, stdin, log, typed>>

\* the operator types the exit character: Miniterm's writer stops the
\* terminal (alive = False) and ends
EscapeKey ==
  /\ txRunning /\ alive
  /\ alive' = FALSE
  /\ txRunning' = FALSE
  /\ UNCHANGED <<fe, made, prompt, openT, mode, cwd, rxRunning, pc, caller, cur,
                 pre, calls, printed, mainVars, queue, stdin, log, typed>>

\* Miniterm's reader sees alive = False and ends
ReaderStops ==
  /\ rxRunning /\ ~alive
  /\ rxRunning' = FALSE
  /\ UNCHANGED <<fe, made, prompt, openT, mode, cwd, alive, txRunning, pc, caller,
                 cur, pre, calls, printed, mainVars, queue, stdin, log, typed>>

\* miniterm.join(True) returns: the writer thread has ended
JoinReturns ==
  /\ pc = "repl_join"
  /\ ~txRunning
  /\ pc' = "repl_cleanup"
  /\ UNCHANGED <<fe, made, prompt, openT, mode, cwd, bridgeVars, caller, cur, pre,
                 calls, printed, mainVars, queue, stdin, log, typed>>

\* KeyboardInterrupt inside the try block: caught, pass
InterruptJoin ==
  /\ pc = "repl_join"
  /\ pc' = "repl_cleanup"
  /\ UNCHANGED <<fe, made, prompt, openT, mode, cwd, bridgeVars, caller, cur, pre,
                 calls, printed, mainVars, queue, stdin, log, typed>>

\* console.cleanup(); self.fe.setup(): do_repl returns to its caller
ReplReturn ==
  /\ pc = "repl_cleanup"
  /\ LET r == repl_resume([s0 EXCEPT !.calls = calls, !.printed = printed])
     IN  /\ mode' = r.mode
         /\ calls' = r.calls
  /\ pc' = caller
  /\ UNCHANGED <<fe, made, prompt, openT, cwd, bridgeVars, caller, cur, pre,
                 printed, mainVars, queue, stdin, log, typed>>

Bridge ==
  \/ ReplStart
  \/ ReplBanner
  \/ InterruptBeforeJoin
  \/ EscapeKey
  \/ ReaderStops
  \/ JoinReturns
  \/ InterruptJoin
  \/ ReplReturn

(* ------------------------ the interactive shell ----------------------- *)
\* cmdloop reading the operator's lines
CmdLoopTty ==
  /\ pc = "cmdloop"
  /\ stdin.tty
  /\ \E p \in ParsedTtyLines : Run(p)
  /\ UNCHANGED <<mainVars, queue, stdin, log, typed>>

NoLine == [cmd |-> <<>>, arg |-> <<>>]

ShellVarsInit ==
  /\ fe = NoSession
  /\ made = 0
  /\ prompt = PromptFor("/")
  /\ openT = {}
  /\ mode = None
  /\ cwd = None
  /\ alive = FALSE
  /\ txRunning = FALSE
  /\ rxRunning = FALSE
  /\ caller = None
  /\ cur = NoLine
  /\ pre = [fe |-> NoSession, prompt |-> PromptFor("/"), openT |-> {},
            mode |-> None, cwd |-> None]
  /\ calls = <<>>
  /\ printed = <<>>
  /\ queue = <<>>
  /\ stdin = Tty
  /\ log = <<>>
  /\ typed = 0

\* mpfshell started without flags: MpFileShell() built, cmdloop entered
Init ==
  /\ ShellVarsInit
  /\ command = Absent
  /\ script = Absent
  /\ noninteractive = FALSE
  /\ pc = "cmdloop"

Next == CmdLoopTty \/ Bridge

Spec == Init /\ [][Next]_vars


(* ------------------------------- main() ------------------------------- *)
\* line 433: the interactive loop unless -n
Line433 == IF noninteractive THEN "done" ELSE "cmdloop"

\* lines 422-427: the script's lines, stripped, without empty and # lines
RECURSIVE ScriptLines(_)
ScriptLines(f) ==
  IF f = <<>> THEN <<>>
  ELSE LET sline == Strip(Head(f))
       IN  IF Len(sline) > 0 /\ ~StartsWith(sline, "#")
           THEN <<sline>> \o ScriptLines(Tail(f))
           ELSE ScriptLines(Tail(f))

\* lines 408-431: -c splits its string into the batch; otherwise -s puts the
\* script behind sys.stdin and empties intro and prompt
Main ==
  /\ pc = "main"
  /\ IF command.given
     THEN /\ queue' = Split(Join(command.value, " "), ";")
          /\ pc' = "batch"
          /\ UNCHANGED <<stdin, prompt>>
     ELSE IF script.given
     THEN /\ stdin' = StringIO(ScriptLines(script.value))
          /\ prompt' = <<>>
          /\ pc' = Line433
          /\ UNCHANGED queue
     ELSE /\ pc' = Line433
          /\ UNCHANGED <<queue, stdin, prompt>>
  /\ UNCHANGED <<fe, made, openT, mode, cwd, bridgeVars, caller, cur, pre, calls,
                 printed, mainVars, log, typed>>

\* line 414: the piece is dispatched
Dispatchable(piece) ==
  LET scmd == Strip(piece) IN Len(scmd) > 0 /\ ~StartsWith(scmd, "#")

\* lines 412-414: an empty or # piece is passed over
BatchSkip ==
  /\ pc = "batch"
  /\ queue # <<>>
  /\ ~Dispatchable(Head(queue))
  /\ queue' = Tail(queue)
  /\ UNCHANGED <<fe, made, prompt, openT, mode, cwd, bridgeVars, pc, caller, cur,
                 pre, calls, printed, mainVars, stdin, log, typed>>

\* lines 412-415: mpfs.onecmd(scmd), its result dropped
BatchDispatch ==
  /\ pc = "batch"
  /\ queue # <<>>
  /\ Dispatchable(Head(queue))
  /\ onecmd(Strip(Head(queue)))
  /\ queue' = Tail(queue)
  /\ log' = Append(log, Strip(Head(queue)))
  /\ UNCHANGED <<mainVars, stdin, typed>>

\* the for loop of line 412 is through
BatchEnd ==
  /\ pc = "batch"
  /\ queue = <<>>
  /\ pc' = Line433
  /\ UNCHANGED <<fe, made, prompt, openT, mode, cwd, bridgeVars, caller, cur, pre,
                 calls, printed, mainVars, queue, stdin, log, typed>>

\* cmdloop reading a line of the script from sys.stdin
CmdLoopScriptLine ==
  /\ pc = "cmdloop"
  /\ ~stdin.tty
  /\ stdin.lines # <<>>
  /\ onecmd(Head(stdin.lines))
  /\ stdin' = StringIO(Tail(stdin.lines))
  /\ log' = Append(log, Head(stdin.lines))
  /\ UNCHANGED <<mainVars, queue, typed>>

\* cmdloop at the end of the script: the line is 'EOF'
CmdLoopEOF ==
  /\ pc = "cmdloop"
  /\ ~stdin.tty
  /\ stdin.lines = <<>>
  /\ onecmd(<<"EOF">>)
  /\ UNCHANGED <<mainVars, queue, stdin, log, typed>>

\* cmdloop after a batch, reading the operator's lines
CmdLoopTyped ==
  /\ pc = "cmdloop"
  /\ stdin.tty
  /\ typed < MaxTyped
  /\ \E p \in AfterBatchLines : Run(p)
  /\ typed' = typed + 1
  /\ UNCHANGED <<mainVars, queue, stdin, log>>

\* mpfshell started with any of its flags
InitMain ==
  /\ ShellVarsInit
  /\ \E f \in Flags :
       /\ command = f.command
       /\ script = f.script
       /\ noninteractive = f.noninteractive
  /\ pc = "main"

NextMain ==
  \/ Main
  \/ BatchSkip
  \/ BatchDispatch
  \/ BatchEnd
  \/ CmdLoopScriptLine
  \/ CmdLoopEOF
  \/ CmdLoopTyped
  \/ Bridge

MainSpec == InitMain /\ [][NextMain]_vars


(* ------------------------------ the claims ---------------------------- *)
\* the main thread is between two commands (or has ended): the last
\* dispatch is over
ReplPcs == {"repl_suspended", "repl_started", "repl_join", "repl_cleanup"}
Dispatched == cur # NoLine /\ pc \notin ReplPcs

\* commands that need a connection
NeedConnection ==
  {"ls", "pwd", "cd", "md", "put", "get", "rm", "cat", "exec", "repl"}

\* commands whose argument is required
NeedArgument == {"open", "cd", "md", "lcd", "put", "get", "rm", "cat", "exec"}

\* the last line was well-formed: its required argument was there
WellFormed == Handler(cur) \in NeedArgument => cur.arg # <<>>

\* how many calls of the last dispatch were op
RECURSIVE CountOp(_, _)
CountOp(cs, op) ==
  IF cs = <<>> THEN 0
  ELSE (IF Head(cs).op = op THEN 1 ELSE 0) + CountOp(Tail(cs), op)

\* C1: a command that requires a connection, dispatched while Disconnected,
\* prints the fixed 'Not connected to device' advisory, makes no Session
\* Handle call and leaves the session state and the prompt unchanged.
C1_NotConnectedAdvisory ==
  (Handler(cur) \in NeedConnection /\ WellFormed /\ pre.fe = NoSession)
    => /\ printed = <<NotConnectedMsg>>
       /\ calls = <<>>
       /\ fe = pre.fe /\ mode = pre.mode /\ openT = pre.openT
       /\ prompt = pre.prompt

\* C2: after close, or the implicit disconnect of a superseding open, the
\* old session handle is dropped whether or not its disconnect call raised
\* RemoteIOError; after close the shell is Disconnected.
C2_DisconnectAlwaysDrops ==
  /\ (Handler(cur) = "close" /\ pre.fe # NoSession) => fe = NoSession
  /\ (Handler(cur) = "open" /\ cur.arg # <<>> /\ pre.fe # NoSession)
       => fe # pre.fe

\* C3: open on a connected shell has released the prior session's transport
\* and dropped its handle by the time the new connect is attempted, whatever
\* the prior disconnect call did; two open transports never exist.
C3_TeardownBeforeConnect ==
  /\ \A i \in DOMAIN calls :
       calls[i].op = "connect"
         => calls[i].sid = NoSession /\ calls[i].openT = {}
  /\ Cardinality(openT) <= 1

\* C4: repl on a connected session has made exactly one suspend (teardown)
\* and exactly one resume (setup) call once it is over, by the escape key or
\* by a KeyboardInterrupt at any point while the bridge was active.
C4_SuspendResumePaired ==
  (Handler(cur) = "repl" /\ pre.fe # NoSession /\ Dispatched)
    => CountOp(calls, "teardown") = 1 /\ CountOp(calls, "setup") = 1

\* C5: no failure of a dispatched line propagates out of the dispatcher and
\* ends the shell.
C5_NoFailureEscapes == pc # "crashed"


\* the structured (remote-affecting) calls of the session handle
StructuredOps == {"pwd", "ls", "cd", "md", "rm", "get", "put", "gets", "exec"}

\* C6: no structured Session Handle call is made between a suspend and its
\* resume, that is while the handle is in Interactive mode; when repl has
\* returned the shell holds the same handle, back in Command mode, before
\* the next command is dispatched.
C6_NoStructuredCallWhileInteractive ==
  /\ \A i \in DOMAIN calls :
       calls[i].op \in StructuredOps => calls[i].mode = "Command"
  /\ (pc \in {"cmdloop", "batch"} /\ fe # NoSession) => mode = "Command"
  /\ (Handler(cur) = "repl" /\ pre.fe # NoSession /\ pc \in {"cmdloop", "batch"})
       => fe = pre.fe /\ calls[Len(calls)].op = "setup"

\* repl on a connected session has returned to the prompt
C6_Witness ==
  /\ Handler(cur) = "repl" /\ pre.fe # NoSession /\ pc = "cmdloop"
  /\ CountOp(calls, "teardown") = 1 /\ CountOp(calls, "setup") = 1
  /\ fe = pre.fe /\ mode = "Command"

\* what main() hands to onecmd out of a list of pieces
Expected(pieces) == ScriptLines(pieces)

\* C7: the batch of -c dispatches every non-empty, non-# command exactly
\* once, in input order; a command that fails does not keep the following
\* ones from being dispatched.
C7_BatchDispatchesAll ==
  (command.given /\ pc \in {"cmdloop", "done", "crashed"})
    => log = Expected(Split(Join(command.value, " "), ";"))

\* C8: with -s every non-empty, non-comment line of the script is
\* dispatched, in file order, whatever the other flags are; -n does not
\* suppress the script's commands.
C8_ScriptDispatchesAll ==
  (script.given /\ pc \in {"done", "crashed"})
    => log = Expected(script.value)

NoBlank(w) == \A i \in DOMAIN w : w[i] # " "
Names == {w \in ArgStrings : NoBlank(w)}

\* C9: on a connected session put L makes exactly one writeFile(L, L) and
\* put L R exactly one writeFile(L, R); get R makes exactly one readFile
\* with local name R and get R L with local name L.
C9_TransferTargets ==
  (Handler(cur) \in {"put", "get"} /\ pre.fe # NoSession)
    => /\ cur.arg \in Names
            => /\ Len(calls) = 1
               /\ calls[1].op = Handler(cur)
               /\ calls[1].args = <<cur.arg, cur.arg>>
       /\ \A x, y \in Names :
            cur.arg = x \o <<" ">> \o y
              => /\ Len(calls) = 1
                 /\ calls[1].op = Handler(cur)
                 /\ calls[1].args = <<x, y>>

\* put a b on a connected session has made its call
C9_Witness ==
  /\ Handler(cur) = "put" /\ pre.fe # NoSession
  /\ cur.arg = <<"a", " ", "b">>
  /\ Len(calls) = 1 /\ calls[1].args = <<(<<"a">>), (<<"b">>)>>

\* C10: open(port) while Disconnected makes exactly one connect attempt;
\* when it reports a device-protocol error the shell stays Disconnected and
\* the error is printed, when it succeeds the shell is Connected in Command
\* mode.
C10_OpenFromDisconnected ==
  (Handler(cur) = "open" /\ cur.arg # <<>> /\ pre.fe = NoSession)
    => /\ Len(calls) = 1
       /\ calls[1].op = "connect"
       /\ IF calls[1].ok
          THEN fe # NoSession /\ mode = "Command" /\ fe \in openT
               /\ printed = <<>>
          ELSE fe = NoSession /\ printed = <<"PyboardError">>
               /\ openT = pre.openT

\* an open from Disconnected whose connect call failed
C10_Witness ==
  /\ Handler(cur) = "open" /\ cur.arg # <<>> /\ pre.fe = NoSession
  /\ Len(calls) = 1 /\ ~calls[1].ok /\ made < MaxSessions
  /\ fe = NoSession


\* C11: after a successful cd on a connected session the prompt is built
\* around the path the Session Handle reports after the change; after a cd
\* whose changeDirectory call fails with IOError the prompt and the session
\* state are as before.
C11_PromptAfterCd ==
  (Handler(cur) = "cd" /\ cur.arg # <<>> /\ pre.fe # NoSession)
    => /\ calls[1].op = "cd"
       /\ IF calls[1].ok
          THEN /\ prompt = PromptFor(cwd)
               /\ Len(calls) = 2 /\ calls[2].op = "pwd"
               /\ fe = pre.fe /\ mode = pre.mode
          ELSE /\ prompt = pre.prompt
               /\ Len(calls) = 1 /\ printed = <<"IOError">>
               /\ fe = pre.fe /\ mode = pre.mode /\ cwd = pre.cwd
               /\ openT = pre.openT

\* a cd that changed the directory and with it the prompt
C11_Witness ==
  /\ Handler(cur) = "cd" /\ pre.fe # NoSession /\ Len(calls) = 2
  /\ calls[1].ok /\ cwd # pre.cwd
  /\ prompt # pre.prompt /\ prompt = PromptFor(cwd)

\* the leading token of the line is no command of the shell
Unknown(p) == ~(Len(p.cmd) = 1 /\ p.cmd[1] \in CommandWords)

\* C12: a line whose leading token is not a known command is reported as
\* unknown, makes no Session Handle call and leaves connected-ness, handle,
\* mode and prompt as they were.
C12_UnknownCommand ==
  (cur # NoLine /\ Unknown(cur))
    => /\ printed = <<"*** Unknown syntax">>
       /\ calls = <<>>
       /\ fe = pre.fe /\ mode = pre.mode /\ openT = pre.openT
       /\ cwd = pre.cwd /\ prompt = pre.prompt
       /\ pc # "crashed"

\* an unknown line dispatched on a connected session
C12_Witness ==
  /\ cur # NoLine /\ Unknown(cur) /\ pre.fe # NoSession
  /\ printed = <<"*** Unknown syntax">> /\ fe = pre.fe


\* C13: when the bridge exits, by the escape key or by an interrupt, both
\* copy loops have stopped before the resume call (fe.setup()) is made.
C13_LoopsStoppedBeforeResume ==
  [][CountOp(calls', "setup") > CountOp(calls, "setup")
       => ~txRunning /\ ~rxRunning]_vars

\* C14: in repl the suspend call (fe.teardown()) has completed before the
\* bridge's copy loops are started; on a Disconnected shell neither the
\* suspend call nor the start of the bridge happens.
C14_SuspendBeforeBridge ==
  /\ pc \in {"repl_started", "repl_join"}
       => /\ Len(calls) = 1 /\ calls[1].op = "teardown"
          /\ calls[1].sid = fe /\ mode = "Interactive"
  /\ (Handler(cur) = "repl" /\ pre.fe = NoSession)
       => calls = <<>> /\ printed = <<NotConnectedMsg>> /\ pc \notin ReplPcs

\* the copy loops of a repl run, the protocol suspended
C14_Witness ==
  /\ pc = "repl_started" /\ txRunning /\ rxRunning
  /\ Handler(cur) = "repl" /\ pre.mode = "Command"
  /\ CountOp(calls, "teardown") = 1 /\ mode = "Interactive"


\* the messages the handlers print for a missing argument
MissingMsgs ==
  {"Missing argument: <PORT>", "Missing argument: <REMOTE DIR>",
   "Missing argument: <TARGET DIR>", "Missing argument: <REMOTE FILE>",
   "Missing argument: <STATEMENT>",
   "Missing arguments: <LOCAL FILE> [<REMOTE FILE>]",
   "Missing arguments: <REMOTE FILE> [<LOCAL FILE>]"}

\* C15: a command with a required argument, dispatched with an empty
\* argument string, prints a 'Missing argument' message, makes no Session
\* Handle call and leaves the session state unchanged, Connected or
\* Disconnected: the argument check comes before the connection check.
C15_MissingArgument ==
  (Handler(cur) \in NeedArgument /\ cur.arg = <<>>)
    => /\ Len(printed) = 1 /\ printed[1] \in MissingMsgs
       /\ calls = <<>>
       /\ fe = pre.fe /\ mode = pre.mode /\ openT = pre.openT
       /\ cwd = pre.cwd /\ prompt = pre.prompt

\* rm without an argument on a Disconnected shell
C15_Witness ==
  /\ Handler(cur) = "rm" /\ cur.arg = <<>> /\ pre.fe = NoSession
  /\ printed = <<"Missing argument: <REMOTE FILE>">>

\* C16: wherever the shell waits for the next command on a connected
\* session, the path in the prompt is the current remote path of that
\* session; a new open does not leave the previous session's path in it.
C16_PromptShowsCurrentPath ==
  (pc = "cmdloop" /\ fe # NoSession) => prompt = PromptFor(cwd)

\* the last line was an open on a connected shell whose disconnect call
\* succeeded and whose connect call failed
FailedSupersede ==
  /\ Handler(cur) = "open" /\ pre.fe # NoSession
  /\ Len(calls) = 2
  /\ calls[1].op = "close" /\ calls[1].ok
  /\ calls[2].op = "connect" /\ ~calls[2].ok

\* C17: an open on a connected shell whose new connect fails after the
\* prior disconnect succeeded leaves the shell Disconnected, the prior
\* session not restored, and the connection-requiring command dispatched
\* after it gets the Not-connected advisory.
C17_FailedReopenLeavesDisconnected ==
  /\ [](FailedSupersede => fe = NoSession /\ pre.fe \notin openT)
  /\ [][(FailedSupersede /\ Handler(cur') \in NeedConnection /\ WellFormed')
          => printed' = <<NotConnectedMsg>> /\ fe' = NoSession]_vars

\* what the whole -c string has to hand to onecmd
AllBatch == Expected(Split(Join(command.value, " "), ";"))

\* C18: in the -c batch the stop result of exit is ignored: the batch goes
\* on with the pieces after it, in order, and the interactive loop is
\* entered after the batch unless -n is given.
C18_ExitInBatchIgnored ==
  command.given
    => /\ pc # "main" => log \o Expected(queue) = AllBatch
       /\ (Handler(cur) \in {"exit", "EOF"} /\ caller = "batch")
            => \/ pc = "batch"
               \/ /\ queue = <<>>
                  /\ pc = IF noninteractive THEN "done" ELSE "cmdloop"

\* exit, then ls, dispatched by the batch, and the interactive loop entered
C18_Witness ==
  /\ command.given /\ ~noninteractive
  /\ log = <<(<<"exit">>), (<<"ls">>)>>
  /\ pc = "cmdloop" /\ typed = 0

=============================================================================
